---------------------------- MODULE Spec2Model ----------------------------
(***************************************************************************)
(* A model of src/utils/geometry.ts: mergePolygonsWithShortestCorridors    *)
(* with its helpers shortestSegmentBetween, samplePerimeterPoints,         *)
(* bboxDiagonalKm and the UnionFind class.                                 *)
(*                                                                         *)
(* Numbers.  A coordinate is a fixed-point integer, Scale units to one     *)
(* degree of the GeoJSON input.  Scale is a common multiple of every       *)
(* subdivision count the sampler uses on the modelled inputs, so the       *)
(* interpolation a + (b - a) * s / k is exact.  A mean of coordinates that *)
(* is no such integer is kept as its sums and its count.                   *)
(*                                                                         *)
(* Distances.  turf.distance and turf.length are the library's             *)
(* great-circle (haversine) distance, a double in kilometres.  The model   *)
(* computes it in fixed point, for coordinates within MaxDegrees of the    *)
(* origin and of each other, and its value in decimetres is within one     *)
(* decimetre of the code's.  Below that the code's value depends on the    *)
(* rounding of line 100 and on Math.sin, Math.cos, Math.atan2 and          *)
(* Math.pow, which ECMAScript leaves to the implementation: of two         *)
(* distances a decimetre or less apart in the model, either may be the     *)
(* smaller in the code, and two may be equal only if the model has them    *)
(* equal.  The variable rounding is that choice: a distance is kept in     *)
(* quarters of a decimetre, three quarters above the decimetres computed,  *)
(* or three quarters below for the pairs of points in rounding; the        *)
(* distance of a point to itself is 0 in every implementation.             *)
(* corridorWidthKm is kept in hundredths of that unit.  NaN is a value of  *)
(* its own, as in the code.                                                *)
(***************************************************************************)
EXTENDS Integers, Sequences, FiniteSets, TLC

VARIABLES
    features,          \* argument: the caller's array of features
    options,           \* argument: <<>> (no corridorFactor) or <<factor>>
    pc,                \* position in mergePolygonsWithShortestCorridors
    polys,             \* line 14
    corridorWidthKm,   \* line 20, in hundredths of the unit of distance
    diagKm,            \* line 19, in units of distance
    edges,             \* line 23
    uf,                \* line 34: [parent, rank]
    k,                 \* loop position: index into edges / allPieces
    mstEdges,          \* line 35
    corridorPolygons,  \* line 45
    allPieces,         \* line 53
    accumulated,       \* line 52: <<>> is null, <<shape>> a shape
    result,            \* the returned value: <<>> before the return
    error,             \* the message of the Error thrown, "" if none
    rounding,          \* the pairs of points whose distance is computed low
    fn,                \* pure-function harness: the function applied
    args,              \* pure-function harness: its arguments
    ret                \* pure-function harness: its result

vars == <<features, options, pc, polys, corridorWidthKm, diagKm, edges, uf, k,
          mstEdges, corridorPolygons, allPieces, accumulated, result, error,
          rounding, fn, args, ret>>

mergeVars == <<features, options, pc, polys, corridorWidthKm, diagKm, edges,
               uf, k, mstEdges, corridorPolygons, allPieces, accumulated,
               result, error, rounding>>

fnVars == <<fn, args, ret>>

-----------------------------------------------------------------------------
(* Bounds of the model.                                                    *)

\* Most features in one call.
MaxN == 5
\* The largest corridorFactor supplied.
MaxFactor == 2
\* Most vertices of a ring handed to the sampler on its own.
MaxV == 3
\* Largest targetPerRing handed to the sampler on its own.
MaxT == 4
\* Most sample points on each side of the pair scan on its own.
MaxSamples == 2
\* Most features in a call whose rounding is varied.
MaxRounded == 3

\* Fixed-point units per input unit: 2^3 * 3 * 5.
Scale == 8 * 15

\* The value NaN of a number (every distance is >= 0).
NaN == 0 - 1

-----------------------------------------------------------------------------
(* Geometry values.                                                        *)

Position(x, y) == <<x, y>>

\* The mean of n positions whose coordinates sum to sx and sy: a position
\* when that is one, else the sums and the count
Mean(sx, sy, n) ==
    IF sx % n = 0 /\ sy % n = 0 THEN Position(sx \div n, sy \div n)
    ELSE <<sx, sy, n>>

\* The count a position's coordinates are divided by
count(p) == IF Len(p) = 3 THEN p[3] ELSE 1

Polygon(rings) == [type |-> "Polygon", coordinates |-> rings]

MultiPolygon(groups) == [type |-> "MultiPolygon", coordinates |-> groups]

Feature(id, geometry) ==
    [type |-> "Feature", properties |-> [id |-> id], geometry |-> geometry]

\* turf.lineString([pa, pb])
lineString(pa, pb) == [type |-> "LineString", coordinates |-> <<pa, pb>>]

\* Rest applied to the value of v, which is computed once
Then(v, Rest(_)) == CHOOSE r \in {Rest(x) : x \in {v}} : TRUE

-----------------------------------------------------------------------------
(* Arithmetic of turf.distance.  A real x is the integer nearest x * One;  *)
(* a wide number <<hi, lo>> is the integer hi * One + lo over One * One.   *)
(* Every intermediate value stays below 2^31.  The operations are          *)
(* functions, so that an argument is computed once, before the call.       *)

Base == 10 ^ 4

One == Base * Base

Wide == Nat \X Nat

Abs(x) == IF x < 0 THEN 0 - x ELSE x

\* x / d to the nearest integer, for x >= 0
Div(x, d) == (x + d \div 2) \div d

\* The product of two integers, exact, as a wide number
Prod[a \in Nat, b \in Nat] ==
    LET a1 == a \div Base
        a0 == a % Base
        b1 == b \div Base
        b0 == b % Base
        cross == a1 * b0 + a0 * b1
        low == (cross % Base) * Base + a0 * b0
    IN <<a1 * b1 + cross \div Base + low \div One, low % One>>

\* A wide number to the nearest real
Round[x \in Wide] == x[1] + (IF 2 * x[2] >= One THEN 1 ELSE 0)

\* The product of two reals
Mul[a \in Nat, b \in Nat] == Round[Prod[a, b]]

WideAdd[x \in Wide, y \in Wide] ==
    <<x[1] + y[1] + (x[2] + y[2]) \div One, (x[2] + y[2]) % One>>

\* A wide number times a real
WideMul[x \in Wide, c \in Nat] == WideAdd[Prod[x[1], c], <<0, Mul[x[2], c]>>]

WideLeq[x \in Wide, y \in Wide] == x[1] < y[1] \/ (x[1] = y[1] /\ x[2] <= y[2])

\* The integer square root of n by Newton's iteration from x >= sqrt(n)
isqrtFrom[n \in Nat, x \in Nat] ==
    IF n = 0 THEN 0
    ELSE IF (x + n \div x) \div 2 >= x THEN x
    ELSE isqrtFrom[n, (x + n \div x) \div 2]

\* The greatest real whose square is at most the wide number x, from w near it
settle[x \in Wide, w \in Nat] ==
    IF ~WideLeq[Prod[w, w], x] THEN settle[x, w - 1]
    ELSE IF WideLeq[Prod[w + 1, w + 1], x] THEN settle[x, w + 1]
    ELSE w

\* The lower half of the root of x, given its upper half w1 >= 1: the rest
\* of x over twice the upper half, corrected once
lowerHalf[x \in Wide, w1 \in Nat] ==
    LET r == ((x[1] - w1 * w1) * Base + x[2] \div Base) \div (2 * w1)
        q == IF r < Base THEN r ELSE Base - 1
    IN q - (q * q) \div (2 * w1 * Base + q)

rootFrom[x \in Wide, w1 \in Nat] == settle[x, w1 * Base + lowerHalf[x, w1]]

\* Math.sqrt of a wide number x < 4: the greatest real whose square is at
\* most x; the upper half of the root is the integer root of the upper half
sqrt[x \in Wide] ==
    IF x[1] = 0 THEN isqrtFrom[x[2], Base]
    ELSE rootFrom[x, isqrtFrom[x[1], 2 * Base]]

\* Largest latitude, and largest difference of two latitudes or of two
\* longitudes, in degrees, for which the series below are as accurate as said
MaxDegrees == 6

\* Most coordinates in a mean
MaxCount == 90

\* The counts two positions' coordinates are divided by, multiplied
Counts == {d \in Nat : 1 <= d /\ d <= MaxCount * MaxCount}

\* (q + r / den) * (c1 + c2 / Base) to the nearest integer, for r < den
scaled[q \in Nat, r \in Nat, den \in Counts, c1 \in Nat, c2 \in Nat] ==
    q * c1 + Div(q * c2, Base) + Div(r * c1 + Div(r * c2, Base), den)

\* degreesToRadians of num / (den * Scale) degrees:
\* num * pi / (180 * Scale * den), pi / (180 * Scale) = 0.000145444104
degreesToRadians[num \in Nat, den \in Counts] ==
    scaled[num \div den, num % den, den, 14544, 4104]

\* Small angles are kept AngleScale times larger
AngleScale == 2 ^ 5

\* AngleScale times half of degreesToRadians of num / (den * Scale) degrees
halfAngle[num \in Nat, den \in Counts] ==
    scaled[num \div den, num % den, den, 232710, 5669]

\* The naturals up to n
UpTo(n) == {z \in Nat : z <= n}

MaxRadians == degreesToRadians[MaxDegrees * Scale, 1]

MaxHalfAngle == halfAngle[MaxDegrees * Scale, 1]

\* z - z^3 / 3! + z^5 / 5!, in z and x2 = (z / AngleScale)^2
sinSeries[z \in Nat, x2 \in Nat] ==
    z - Div(Mul[z, x2], 6) + Div(Mul[Mul[z, x2], x2], 120)

\* AngleScale * Math.sin(z / AngleScale)
sinScaled[z \in UpTo(MaxHalfAngle)] ==
    sinSeries[z, Div(Mul[z, z], AngleScale * AngleScale)]

\* w + w^3 / 6 + 3 w^5 / 40 + 5 w^7 / 112, in w and x2 = (w / AngleScale)^2
asinSeries[w \in Nat, x2 \in Nat] ==
    w + Div(Mul[w, x2], 6) + Div(3 * Mul[Mul[w, x2], x2], 40)
      + Div(5 * Mul[Mul[Mul[w, x2], x2], x2], 112)

\* AngleScale * asin(w / AngleScale), which is
\* AngleScale * Math.atan2(w, Math.sqrt(AngleScale^2 - w^2))
asinScaled[w \in UpTo(2 * MaxHalfAngle)] ==
    asinSeries[w, Div(Mul[w, w], AngleScale * AngleScale)]

\* 1 - y2 / 2! + y2^2 / 4! - y2^3 / 6!, in y2 = y^2
cosSeries[y2 \in Nat] ==
    One - Div(y2, 2) + Div(Mul[y2, y2], 24) - Div(Mul[Mul[y2, y2], y2], 720)

\* Math.cos(y)
cos[y \in UpTo(MaxRadians)] == cosSeries[Mul[y, y]]

\* Math.pow(x, 2), exact
square[x \in Nat] == Prod[x, x]

\* AngleScale^2 times the a of turf.distance, for dLat and dLon of m / den
\* and n / den in 1 / Scale degrees and lat1, lat2 in radians:
\* sin(dLat / 2)^2 + sin(dLon / 2)^2 * cos(lat1) * cos(lat2)
haversine[m \in Nat, n \in Nat, den \in Counts, lat1 \in Nat, lat2 \in Nat] ==
    WideAdd[square[sinScaled[halfAngle[m, den]]],
            WideMul[WideMul[square[sinScaled[halfAngle[n, den]]], cos[lat1]],
                    cos[lat2]]]

\* A wide number of hundred-millionths of a decimetre to the nearest
\* decimetre, rounded once
toDecimetres[x \in Wide] == (x[1] + (x[2] + 5 * One) \div One) \div 10

\* radiansToLength of 2 * g / AngleScale in decimetres:
\* 2 * 63710088 / (AngleScale * One) = 0.039818805 decimetres to one of g
radiansToLength[g \in Nat] == toDecimetres[Prod[g, 39818805]]

\* turf.distance(pa, pb) to the nearest decimetre: radiansToLength of
\* 2 * atan2(sqrt(a), sqrt(1 - a)) = 2 * asin(sqrt(a))
decimetres(pa, pb) ==
    radiansToLength[asinScaled[sqrt[
        haversine[Abs(pb[2] * count(pa) - pa[2] * count(pb)),
                  Abs(pb[1] * count(pa) - pa[1] * count(pb)),
                  count(pa) * count(pb),
                  degreesToRadians[Abs(pa[2]), count(pa)],
                  degreesToRadians[Abs(pb[2]), count(pb)]]]]]

\* Units of distance to one decimetre
Decimetre == 4

\* The code's distance is within a decimetre of the decimetres computed: it
\* is kept Spread units above them or, for the pairs computed low, below
Spread == 3

\* dLat and dLon are both 0
samePoint(pa, pb) ==
    /\ pb[1] * count(pa) = pa[1] * count(pb)
    /\ pb[2] * count(pa) = pa[2] * count(pb)

\* turf.distance(from, to, {units: "kilometers"}) in units of distance, for
\* an implementation that computes the pairs of r low; with dLat = dLon = 0
\* it is 0 in every implementation
distance(from, to, r) ==
    IF samePoint(from, to) THEN 0
    ELSE Then(decimetres(from, to),
              LAMBDA dm : Decimetre * dm
                          + (IF <<from, to>> \in r THEN 0 - Spread ELSE Spread))

\* turf.length(seg) of a two-point line string
length(seg, r) == distance(seg.coordinates[1], seg.coordinates[2], r)

\* turf.buffer(seg, radius): the library's polygon, kept as a term
buffer(seg, radius) == [type |-> "Buffer", line |-> seg, radius |-> radius]

\* turf.union(a, b): the library's polygon, kept as a term
turfUnion(a, b) == [type |-> "Union", left |-> a, right |-> b]

\* turf.clone(f): a deep copy, rebuilt field by field
clone(f) ==
    [type |-> f.type,
     properties |-> [id |-> f.properties.id],
     geometry |-> [type |-> f.geometry.type,
                   coordinates |-> [i \in DOMAIN f.geometry.coordinates |->
                                       f.geometry.coordinates[i]]]]

RECURSIVE Flatten(_)
Flatten(ss) == IF ss = <<>> THEN <<>> ELSE Head(ss) \o Flatten(Tail(ss))

\* The ring-groups of a feature (line 87)
ringGroups(p) ==
    IF p.geometry.type = "Polygon" THEN <<p.geometry.coordinates>>
    ELSE p.geometry.coordinates

\* Every ring of a feature, outer rings and holes
allRings(p) == Flatten(ringGroups(p))

Min(S) == CHOOSE x \in S : \A y \in S : x <= y
Max(S) == CHOOSE x \in S : \A y \in S : x >= y

\* turf.bbox of the collection: <<minX, minY, maxX, maxY>>; <<>> stands for
\* [Infinity, Infinity, -Infinity, -Infinity], its value with no coordinate
bbox(ps) ==
    LET pts == Flatten(Flatten([i \in DOMAIN ps |-> allRings(ps[i])]))
        xs == {pts[i][1] : i \in DOMAIN pts}
        ys == {pts[i][2] : i \in DOMAIN pts}
    IN IF pts = <<>> THEN <<>>
       ELSE <<Min(xs), Min(ys), Max(xs), Max(ys)>>

\* lines 107-114; the distance of infinite corners is NaN, nothing throws
bboxDiagonalKm(box, r) ==
    IF box = <<>> THEN NaN
    ELSE distance(Position(box[1], box[2]), Position(box[3], box[4]), r)

\* One kilometre, the unit of the code's distances, in units of distance
Km == 10 ^ 4 * Decimetre

\* line 20 without the fallback of the diagonal: diagKm * 0.02 * factor
corridorWidthOff(diag, opts) ==
    diag * 2 * (IF opts = <<>> THEN 1 ELSE opts[1])

\* line 20: (diagKm || 1) * 0.02 * (options?.corridorFactor ?? 1); 0.02 of a
\* unit is 2 hundredths of it
corridorWidth(diag, opts) ==
    (IF diag = NaN \/ diag = 0 THEN Km ELSE diag) * 2
        * (IF opts = <<>> THEN 1 ELSE opts[1])

-----------------------------------------------------------------------------
(* samplePerimeterPoints, lines 85-105.                                    *)

\* Math.ceil(t / m) for t >= 0 and m >= 1
Ceil(t, m) == (t + m - 1) \div m

\* line 100: a + (b - a) * t with t = s / kk, exact in fixed point
interpolate(a, b, s, kk) ==
    Position(a[1] + ((b[1] - a[1]) * s) \div kk,
             a[2] + ((b[2] - a[2]) * s) \div kk)

\* The guard of the loop of line 98, s < targetPerRing / (ring.length - 1),
\* for ring.length - 1 >= 1
sampleGuardOff(s, targetPerRing, v) == s * (v - 1) <= targetPerRing

sampleGuard(s, targetPerRing, v) == s * (v - 1) < targetPerRing

\* lines 98-101: the points pushed for the edge from a to b, from step s on
RECURSIVE edgeSamplesFrom(_, _, _, _, _)
edgeSamplesFrom(a, b, targetPerRing, v, s) ==
    IF sampleGuard(s, targetPerRing, v)
    THEN <<interpolate(a, b, s, Ceil(targetPerRing, v - 1))>>
            \o edgeSamplesFrom(a, b, targetPerRing, v, s + 1)
    ELSE <<>>

edgeSamples(a, b, targetPerRing, v) == edgeSamplesFrom(a, b, targetPerRing, v, 1)

\* lines 91-102 for one ring: its vertices, then the samples of each edge
ringSamples(ring, targetPerRing) ==
    ring \o Flatten([i \in 1..(Len(ring) - 1) |->
                        edgeSamples(ring[i], ring[i + 1], targetPerRing, Len(ring))])

\* lines 88-103: every ring-group with a ring gives the samples of its first
samplePerimeterPoints(p, targetPerRing) ==
    LET groups == ringGroups(p)
    IN Flatten([g \in DOMAIN groups |->
                   IF Len(groups[g]) = 0 THEN <<>>
                   ELSE ringSamples(groups[g][1], targetPerRing)])

-----------------------------------------------------------------------------
(* shortestSegmentBetween, lines 65-83.                                    *)

\* lines 67-68: the sample count asked of every ring
TargetPerRing == 24

\* line 73: d < best.d
closerOff(d, bestD) == d <= bestD

closer(d, bestD) == d < bestD

\* lines 72-73: one pair; best is <<>> (null) or <<[pa, pb, d]>>
scanStep(best, pa, pb, r) ==
    Then(distance(pa, pb, r),
         LAMBDA d : IF best = <<>> \/ closer(d, best[1].d)
                    THEN <<[pa |-> pa, pb |-> pb, d |-> d]>>
                    ELSE best)

\* lines 71-74: the inner loop over samplesB[lo..hi], in index order (the
\* range is walked as its lower half followed by its upper half)
RECURSIVE innerLoop(_, _, _, _, _, _)
innerLoop(best, pa, samplesB, lo, hi, r) ==
    IF lo > hi THEN best
    ELSE IF lo = hi THEN scanStep(best, pa, samplesB[lo], r)
    ELSE Then(innerLoop(best, pa, samplesB, lo, (lo + hi) \div 2, r),
              LAMBDA b : innerLoop(b, pa, samplesB, (lo + hi) \div 2 + 1, hi, r))

\* lines 70-75: the outer loop over samplesA[lo..hi], in index order
RECURSIVE outerLoop(_, _, _, _, _, _)
outerLoop(best, samplesA, samplesB, lo, hi, r) ==
    IF lo > hi THEN best
    ELSE IF lo = hi
    THEN innerLoop(best, samplesA[lo], samplesB, 1, Len(samplesB), r)
    ELSE Then(outerLoop(best, samplesA, samplesB, lo, (lo + hi) \div 2, r),
              LAMBDA b : outerLoop(b, samplesA, samplesB,
                                   (lo + hi) \div 2 + 1, hi, r))

\* lines 69-75
scanPairs(samplesA, samplesB, r) ==
    outerLoop(<<>>, samplesA, samplesB, 1, Len(samplesA), r)

\* The coordinates turf.centroid averages: every ring's but its closing one
RECURSIVE centroidCoords(_)
centroidCoords(rings) ==
    IF rings = <<>> THEN <<>>
    ELSE (IF Len(Head(rings)) = 0 THEN <<>>
          ELSE SubSeq(Head(rings), 1, Len(Head(rings)) - 1))
         \o centroidCoords(Tail(rings))

RECURSIVE Sum(_, _)
Sum(s, c) == IF s = <<>> THEN 0 ELSE Head(s)[c] + Sum(Tail(s), c)

\* lines 78-79, turf.getCoord(turf.centroid(p)): the mean of the coordinates;
\* with no coordinate the mean is 0 / 0 = NaN and the library's point
\* constructor throws: <<>> here
centroid(p) ==
    LET cs == centroidCoords(allRings(p))
    IN IF cs = <<>> THEN <<>>
       ELSE <<Mean(Sum(cs, 1), Sum(cs, 2), Len(cs))>>

Thrown(message) == [type |-> "Error", message |-> message]

\* lines 76-81: the fallback
centroidSegment(a, b) ==
    LET ca == centroid(a)
        cb == centroid(b)
    IN IF ca = <<>> \/ cb = <<>> THEN Thrown("coordinates must contain numbers")
       ELSE lineString(ca[1], cb[1])

\* lines 65-83: a line string, or the Error thrown
shortestSegmentBetween(a, b, r) ==
    Then(samplePerimeterPoints(a, TargetPerRing), LAMBDA samplesA :
    Then(samplePerimeterPoints(b, TargetPerRing), LAMBDA samplesB :
    Then(scanPairs(samplesA, samplesB, r), LAMBDA best :
        IF best = <<>> THEN centroidSegment(a, b)
        ELSE lineString(best[1].pa, best[1].pb))))

-----------------------------------------------------------------------------
(* class UnionFind, lines 116-140.  A structure is [parent, rank], both    *)
(* arrays indexed from 0.                                                  *)

\* lines 119-122
UnionFind(n) ==
    [parent |-> [i \in 0..(n - 1) |-> i], rank |-> [i \in 0..(n - 1) |-> 0]]

\* lines 123-126: the structure after the call and the value returned
RECURSIVE find(_, _)
find(u, x) ==
    IF u.parent[x] # x
    THEN LET r == find(u, u.parent[x])
         IN [uf |-> [r.uf EXCEPT !.parent[x] = r.root], root |-> r.root]
    ELSE [uf |-> u, root |-> x]

\* lines 127-139 with the roots attached below the nodes given, not below
\* their roots
unionNodes(u, a, b) ==
    LET fa == find(u, a)
        fb == find(fa.uf, b)
        ra == fa.root
        rb == fb.root
        w == fb.uf
    IN IF ra = rb THEN w
       ELSE IF w.rank[ra] < w.rank[rb] THEN [w EXCEPT !.parent[a] = rb]
       ELSE IF w.rank[ra] > w.rank[rb] THEN [w EXCEPT !.parent[b] = ra]
       ELSE [w EXCEPT !.parent[b] = ra, !.rank[ra] = @ + 1]

\* lines 127-139: the structure after the call
union(u, a, b) ==
    LET fa == find(u, a)
        fb == find(fa.uf, b)
        ra == fa.root
        rb == fb.root
        w == fb.uf
    IN IF ra = rb THEN w
       ELSE IF w.rank[ra] < w.rank[rb] THEN [w EXCEPT !.parent[ra] = rb]
       ELSE IF w.rank[ra] > w.rank[rb] THEN [w EXCEPT !.parent[rb] = ra]
       ELSE [w EXCEPT !.parent[rb] = ra, !.rank[ra] = @ + 1]

-----------------------------------------------------------------------------
(* The features the calls are made with.                                   *)

Square(x0, y0, x1, y1) ==
    <<Position(x0, y0), Position(x1, y0), Position(x1, y1), Position(x0, y1),
      Position(x0, y0)>>

\* The three squares of the example of src/components/PolygonMerger.tsx
\* (lines 7-59), a feature that is one point, and a feature whose ring is empty
ShapeLib ==
    <<Feature(1, Polygon(<<Square(0, 0, Scale, Scale)>>)),
      Feature(2, Polygon(<<Square(3 * Scale, Scale \div 5,
                                  (21 * Scale) \div 5, (6 * Scale) \div 5)>>)),
      Feature(3, Polygon(<<Square(2 * Scale, (5 * Scale) \div 2,
                                  (14 * Scale) \div 5, (16 * Scale) \div 5)>>)),
      Feature(4, Polygon(<<<<Position(2 * Scale, Scale),
                             Position(2 * Scale, Scale)>>>>)),
      Feature(5, Polygon(<< <<>> >>))>>

LibIds == DOMAIN ShapeLib

\* The place of the one-point feature in ShapeLib
PointId == Len(ShapeLib) - 1

\* lines 26-27 for two features: seg, the line string or the Error thrown by
\* shortestSegmentBetween, and distance, turf.length(seg)
segmentAndLength(a, b, r) ==
    Then(shortestSegmentBetween(a, b, r), LAMBDA seg :
        [seg |-> seg,
         distance |-> IF seg.type = "Error" THEN NaN ELSE length(seg, r)])

\* The two points shortestSegmentBetween joins for two features of the
\* library when no distance is computed low
NearestPair(i, j) == shortestSegmentBetween(ShapeLib[i], ShapeLib[j], {}).coordinates

\* The roundings of the calls: no distance computed low; the distance that
\* joins the first square to the second; the distance that joins the second
\* to the first, which the model has equal to it
LibRoundings == {{}, {NearestPair(1, 2)}, {NearestPair(2, 1)}}

\* The values of lines 26-27 on the library, computed once
SegTable ==
    [r \in LibRoundings |-> [i \in LibIds |-> [j \in LibIds |->
        segmentAndLength(ShapeLib[i], ShapeLib[j], r)]]]

\* lines 26-27 for two features of the library
segmentOf(a, b, r) == SegTable[r][a.properties.id][b.properties.id]

-----------------------------------------------------------------------------
(* mergePolygonsWithShortestCorridors, lines 10-63.                        *)

\* line 16 with the test n === 0
isSingleOff(n) == n = 0

\* line 16
isSingle(n) == n = 1

\* lines 24-30: the pairs i < j in the order of the two loops
pairOrder(n) ==
    Flatten([i \in 1..n |-> [d \in 1..(n - i) |-> <<i - 1, i - 1 + d>>]])

\* line 31: the comparator of the sort
compareOff(x, y) == y.distance - x.distance

compare(x, y) == x.distance - y.distance

\* line 31 left out
sortOff(s) == s

\* line 31, Array.prototype.sort, which is stable: an element goes after
\* those that compare less and after the earlier ones that compare equal
sort(s) ==
    LET place(i) == 1 + Cardinality({j \in DOMAIN s :
                        \/ compare(s[j], s[i]) < 0
                        \/ compare(s[j], s[i]) = 0 /\ j < i})
    IN [p \in DOMAIN s |-> s[CHOOSE i \in DOMAIN s : place(i) = p]]

\* lines 23-30: the edges before the sort; an entry's seg may be the Error
\* thrown by shortestSegmentBetween
buildEdges(ps, r) ==
    LET po == pairOrder(Len(ps))
    IN [e \in DOMAIN po |->
          LET sl == segmentOf(ps[po[e][1] + 1], ps[po[e][2] + 1], r)
          IN [a |-> po[e][1], b |-> po[e][2],
              distance |-> sl.distance, seg |-> sl.seg]]

\* line 37: uf.find(e.a) !== uf.find(e.b), on the parents instead of the roots
differentSetsOff(u, e) == u.parent[e.a] # u.parent[e.b]

\* line 37: uf.find(e.a) !== uf.find(e.b)
differentSets(u, e) == find(u, e.a).root # find(find(u, e.a).uf, e.b).root

\* line 37: the structure after the two calls of find
afterFinds(u, e) == find(find(u, e.a).uf, e.b).uf

\* lines 46-49
buildCorridors(mst, width) ==
    [i \in DOMAIN mst |-> buffer(mst[i].seg, width)]

\* line 55 with the operands of turf.union swapped
foldPieceOff(acc, piece) ==
    IF acc # <<>> THEN <<turfUnion(piece, acc[1])>> ELSE <<piece>>

\* line 55
foldPiece(acc, piece) ==
    IF acc # <<>> THEN <<turfUnion(acc[1], piece)>> ELSE <<piece>>

\* line 16: polys[0], which is undefined in an empty array
first(ps) == IF ps = <<>> THEN [type |-> "undefined"] ELSE ps[1]

EmptyDebug == [pairs |-> <<>>, mstEdges |-> <<>>, corridorPolygons |-> <<>>]

NoUf == [parent |-> <<>>, rank |-> <<>>]

\* The features mixed freely in a call: the three squares and the empty ring
MixIds == {i \in LibIds : ShapeLib[i].properties.id # PointId}

\* The call: up to MaxN features, either any of MixIds or copies of the
\* one-point feature, with or without a corridorFactor, on an implementation
\* with one of the roundings (no distance computed low when the features are
\* more than MaxRounded)
Init ==
    /\ \E m \in 0..MaxN :
          /\ \/ \E ids \in [1..m -> MixIds] :
                   features = [i \in 1..m |-> ShapeLib[ids[i]]]
             \/ m >= 2 /\ features = [i \in 1..m |-> ShapeLib[PointId]]
          /\ rounding \in IF m <= MaxRounded THEN LibRoundings ELSE {{}}
    /\ options \in {<<>>, <<0>>, <<1>>, <<MaxFactor>>}
    /\ pc = "start"
    /\ polys = <<>>
    /\ corridorWidthKm = 0
    /\ diagKm = 0
    /\ edges = <<>>
    /\ uf = NoUf
    /\ k = 0
    /\ mstEdges = <<>>
    /\ corridorPolygons = <<>>
    /\ allPieces = <<>>
    /\ accumulated = <<>>
    /\ result = <<>>
    /\ error = ""
    /\ fn = ""
    /\ args = <<>>
    /\ ret = <<>>

\* lines 14-20
Start ==
    /\ pc = "start"
    /\ polys' = [i \in DOMAIN features |-> clone(features[i])]
    /\ IF isSingle(Len(features))
       THEN /\ result' = <<[output |-> first(polys'), debug |-> EmptyDebug]>>
            /\ pc' = "done"
            /\ UNCHANGED <<diagKm, corridorWidthKm>>
       ELSE /\ diagKm' = bboxDiagonalKm(bbox(polys'), rounding)
            /\ corridorWidthKm' = corridorWidth(diagKm', options)
            /\ pc' = "graph"
            /\ UNCHANGED result
    /\ UNCHANGED <<features, options, edges, uf, k, mstEdges, corridorPolygons,
                   allPieces, accumulated, error, fnVars,
                   rounding>>

\* lines 22-35: the graph, sorted, and the empty union-find; or the Error of
\* the first shortestSegmentBetween that throws
BuildGraph ==
    /\ pc = "graph"
    /\ LET es == buildEdges(polys, rounding)
           bad == {e \in DOMAIN es : es[e].seg.type = "Error"}
       IN IF bad # {}
          THEN /\ error' = es[Min(bad)].seg.message
               /\ pc' = "error"
               /\ UNCHANGED <<edges, uf, k>>
          ELSE /\ edges' = sort(es)
               /\ uf' = UnionFind(Len(polys))
               /\ k' = 1
               /\ pc' = "scan"
               /\ UNCHANGED error
    /\ UNCHANGED <<features, options, polys, corridorWidthKm, diagKm, mstEdges,
                   corridorPolygons, allPieces, accumulated, result, fnVars,
                   rounding>>

\* lines 36-37: the next edge and the test of its two ends
KruskalTest ==
    /\ pc = "scan"
    /\ k <= Len(edges)
    /\ uf' = afterFinds(uf, edges[k])
    /\ IF differentSets(uf, edges[k])
       THEN pc' = "accept" /\ UNCHANGED k
       ELSE pc' = "scan" /\ k' = k + 1
    /\ UNCHANGED <<features, options, polys, corridorWidthKm, diagKm, edges,
                   mstEdges, corridorPolygons, allPieces, accumulated, result,
                   error, fnVars,
                   rounding>>

\* lines 38-40: the edge is accepted
KruskalAccept ==
    /\ pc = "accept"
    /\ uf' = union(uf, edges[k].a, edges[k].b)
    /\ mstEdges' = Append(mstEdges, [a |-> edges[k].a, b |-> edges[k].b,
                                     seg |-> edges[k].seg])
    /\ IF Len(mstEdges') = Len(polys) - 1
       THEN pc' = "corridors" /\ UNCHANGED k
       ELSE pc' = "scan" /\ k' = k + 1
    /\ UNCHANGED <<features, options, polys, corridorWidthKm, diagKm, edges,
                   corridorPolygons, allPieces, accumulated, result, error,
                   fnVars,
                   rounding>>

\* line 36: the edges are exhausted
KruskalEnd ==
    /\ pc = "scan"
    /\ k > Len(edges)
    /\ pc' = "corridors"
    /\ UNCHANGED <<features, options, polys, corridorWidthKm, diagKm, edges, uf,
                   k, mstEdges, corridorPolygons, allPieces, accumulated, result,
                   error, fnVars,
                   rounding>>

\* lines 44-53
Corridors ==
    /\ pc = "corridors"
    /\ corridorPolygons' = buildCorridors(mstEdges, corridorWidthKm)
    /\ allPieces' = polys \o corridorPolygons'
    /\ accumulated' = <<>>
    /\ k' = 1
    /\ pc' = "merge"
    /\ UNCHANGED <<features, options, polys, corridorWidthKm, diagKm, edges, uf,
                   mstEdges, result, error, fnVars,
                   rounding>>

\* lines 54-56: one piece
MergeStep ==
    /\ pc = "merge"
    /\ k <= Len(allPieces)
    /\ accumulated' = foldPiece(accumulated, allPieces[k])
    /\ k' = k + 1
    /\ UNCHANGED <<features, options, pc, polys, corridorWidthKm, diagKm, edges,
                   uf, mstEdges, corridorPolygons, allPieces, result, error,
                   fnVars,
                   rounding>>

\* lines 57-62
Return ==
    /\ pc = "merge"
    /\ k > Len(allPieces)
    /\ IF accumulated = <<>>
       THEN error' = "Union failed" /\ pc' = "error" /\ UNCHANGED result
       ELSE /\ result' = <<[output |-> accumulated[1],
                            debug |-> [pairs |-> edges, mstEdges |-> mstEdges,
                                       corridorPolygons |-> corridorPolygons]]>>
            /\ pc' = "done"
            /\ UNCHANGED error
    /\ UNCHANGED <<features, options, polys, corridorWidthKm, diagKm, edges, uf,
                   k, mstEdges, corridorPolygons, allPieces, accumulated, fnVars,
                   rounding>>

Next ==
    \/ Start
    \/ BuildGraph
    \/ KruskalTest
    \/ KruskalAccept
    \/ KruskalEnd
    \/ Corridors
    \/ MergeStep
    \/ Return

Spec == Init /\ [][Next]_vars

-----------------------------------------------------------------------------
(* The helpers called on their own: the arguments are drawn, the function  *)
(* is applied once.                                                        *)

GridPoints ==
    {Position(0, 0), Position(Scale, 0), Position(0, Scale)}

\* Rings of up to MaxV vertices
Rings == UNION {[1..m -> GridPoints] : m \in 0..MaxV}

\* Sample lists of up to MaxSamples points
SampleLists == UNION {[1..m -> GridPoints] : m \in 0..MaxSamples}

\* The roundings of the calls of shortestSegmentBetween: no distance
\* computed low, or that of one pair of different points
GridRoundings ==
    {{}} \cup {{pq} : pq \in {x \in GridPoints \X GridPoints : x[1] # x[2]}}

\* A feature whose samples are the points of s: one single-vertex ring each
PointsFeature(s) == Feature(0, MultiPolygon([i \in DOMAIN s |-> << <<s[i]>> >>]))

\* An empty outer ring with a hole
ShapeH ==
    Feature(0, Polygon(<< <<>>, <<Position(0, 0), Position(2 * Scale, 0),
                                 Position(0, 0)>> >>))

\* A ring-group without rings, a square with a hole, a triangle
ShapeM ==
    Feature(0, MultiPolygon(
        << <<>>,
           <<Square(0, 0, 3 * Scale, 3 * Scale),
             Square(Scale, Scale, 2 * Scale, 2 * Scale)>>,
           << <<Position(4 * Scale, 0), Position(5 * Scale, 0),
                Position(4 * Scale, Scale), Position(4 * Scale, 0)>> >> >>))

\* The features handed to shortestSegmentBetween on its own, besides those
\* made of sample lists: the empty ring, and the empty outer ring with a hole
FixedShapes == <<ShapeLib[Len(ShapeLib)], ShapeH>>

InitFn ==
    /\ features = <<>>
    /\ options = <<>>
    /\ pc = "idle"
    /\ polys = <<>>
    /\ corridorWidthKm = 0
    /\ diagKm = 0
    /\ edges = <<>>
    /\ uf = NoUf
    /\ k = 0
    /\ mstEdges = <<>>
    /\ corridorPolygons = <<>>
    /\ allPieces = <<>>
    /\ accumulated = <<>>
    /\ result = <<>>
    /\ error = ""
    /\ ret = <<>>
    /\ \/ /\ fn = "samplePerimeterPoints"
          /\ rounding = {}
          /\ \E t \in 0..MaxT :
                \/ \E ring \in Rings : args = <<Feature(0, Polygon(<<ring>>)), t>>
                \/ args = <<ShapeH, t>>
                \/ args = <<ShapeM, t>>
       \/ /\ fn = "shortestSegmentBetween"
          /\ rounding \in GridRoundings
          /\ \/ \E i, j \in DOMAIN FixedShapes :
                   args = <<FixedShapes[i], FixedShapes[j]>>
             \/ \E sa, sb \in SampleLists :
                   args = <<PointsFeature(sa), PointsFeature(sb)>>
             \/ \E i \in DOMAIN FixedShapes : \E sa \in SampleLists :
                   \/ args = <<FixedShapes[i], PointsFeature(sa)>>
                   \/ args = <<PointsFeature(sa), FixedShapes[i]>>

CallSamplePerimeterPoints ==
    /\ fn = "samplePerimeterPoints"
    /\ ret = <<>>
    /\ ret' = <<samplePerimeterPoints(args[1], args[2])>>
    /\ UNCHANGED <<mergeVars, fn, args>>

CallShortestSegmentBetween ==
    /\ fn = "shortestSegmentBetween"
    /\ ret = <<>>
    /\ ret' = <<shortestSegmentBetween(args[1], args[2], rounding)>>
    /\ UNCHANGED <<mergeVars, fn, args>>

NextFn == CallSamplePerimeterPoints \/ CallShortestSegmentBetween

SpecFn == InitFn /\ [][NextFn]_vars

-----------------------------------------------------------------------------
(* Definitions the properties are stated with.                             *)

\* The number of features of the call
N == Len(features)

Nodes == 0..(N - 1)

\* The call took the general path and built its graph
GraphBuilt == N # 1 /\ pc \in {"scan", "accept", "corridors", "merge", "done"}

\* The Kruskal scan of the call has ended
ScanEnded == N # 1 /\ pc \in {"corridors", "merge", "done"}

\* The representative find reports for i
Root(i) == find(uf, i).root

\* The nodes joined to those of S by the pairs of E
RECURSIVE Reach(_, _)
Reach(S, E) ==
    LET T == S \cup {e[2] : e \in {f \in E : f[1] \in S}}
                \cup {e[1] : e \in {f \in E : f[2] \in S}}
    IN IF T = S THEN S ELSE Reach(T, E)

\* The pairs of the edges pushed to mstEdges
MstPairs == {<<mstEdges[i].a, mstEdges[i].b>> : i \in DOMAIN mstEdges}

RECURSIVE SetToSeq(_)
SetToSeq(S) ==
    IF S = {} THEN <<>> ELSE <<Min(S)>> \o SetToSeq(S \ {Min(S)})

\* The spanning trees of the complete graph on m nodes, each the increasing
\* sequence of its edges' positions in pairOrder(m)
TreesOf(m) ==
    {SetToSeq(S) : S \in {X \in SUBSET DOMAIN pairOrder(m) :
        /\ Cardinality(X) = m - 1
        /\ Reach({0}, {pairOrder(m)[i] : i \in X}) = 0..(m - 1)}}

TreeTable == [m \in 2..MaxN |-> TreesOf(m)]

RECURSIVE SeqSum(_)
SeqSum(s) == IF s = <<>> THEN 0 ELSE Head(s) + SeqSum(Tail(s))

\* The computed distance of each pair, in the order of pairOrder(N)
PairDistance ==
    LET po == pairOrder(N)
    IN [i \in DOMAIN po |->
          edges[CHOOSE e \in DOMAIN edges :
                    edges[e].a = po[i][1] /\ edges[e].b = po[i][2]].distance]

\* The sum of the distances of the edges selected
MstDistance ==
    SeqSum([i \in DOMAIN mstEdges |->
               edges[CHOOSE e \in DOMAIN edges :
                   edges[e].a = mstEdges[i].a /\ edges[e].b = mstEdges[i].b].distance])

\* A position of edges whose distance is the greatest
Farthest == CHOOSE e \in DOMAIN edges :
                \A f \in DOMAIN edges : edges[f].distance <= edges[e].distance

\* The left fold of turf.union over the first m pieces
RECURSIVE LeftFold(_, _)
LeftFold(pieces, m) ==
    IF m = 0 THEN <<>>
    ELSE IF m = 1 THEN <<pieces[1]>>
    ELSE <<turfUnion(LeftFold(pieces, m - 1)[1], pieces[m])>>

-----------------------------------------------------------------------------
(* Properties of mergePolygonsWithShortestCorridors (specification Spec).  *)

\* C1: for n >= 2 features, once the Kruskal scan has ended exactly n - 1
\* edges have been accepted and find reports one representative for all of
\* 0..n-1.
C1_SpanningSet ==
    (ScanEnded /\ N >= 2) =>
        /\ Len(mstEdges) = N - 1
        /\ \A i, j \in Nodes : Root(i) = Root(j)

\* C1 witness: a scan over at least four features that stopped at the
\* (n-1)-th accepted edge with edges left unscanned.
C1_Witness ==
    /\ pc = "corridors"
    /\ N >= 4
    /\ Len(mstEdges) = N - 1
    /\ k < Len(edges)

\* C2: for n >= 2 the distances of the selected edges sum to no more than
\* those of any spanning tree of the complete graph on the computed edges;
\* for n = 3 with three distinct distances there are 3 edges, 2 are selected
\* and the edge of greatest distance is not among them.
C2_MinimumSpanningTree ==
    (pc = "corridors" /\ N >= 2) =>
        /\ \A w \in {PairDistance} : \A total \in {MstDistance} :
              \A t \in TreeTable[N] : total <= SeqSum([i \in DOMAIN t |-> w[t[i]]])
        /\ (N = 3 /\ Cardinality({edges[e].distance : e \in DOMAIN edges}) = 3) =>
              /\ Len(edges) = 3
              /\ Len(mstEdges) = 2
              /\ <<edges[Farthest].a, edges[Farthest].b>> \notin MstPairs

\* C2 witness: the three squares of the example, whose first two are the
\* most distant pair; the scan has ended without the edge between them.
C2_Witness ==
    /\ pc = "corridors"
    /\ N = 3
    /\ \A i \in 1..3 : features[i].properties.id = i
    /\ Cardinality({edges[e].distance : e \in DOMAIN edges}) = 3
    /\ MstPairs = {<<1, 2>>, <<0, 2>>}

\* C3: during the scan and after it, find reports the same representative
\* for i and j exactly when the edges pushed to mstEdges join i to j; this
\* holds between the two calls of find of an iteration and the call of union.
C3_Partition ==
    (N # 1 /\ pc \in {"scan", "accept", "corridors"}) =>
        \A i, j \in Nodes : (Root(i) = Root(j)) <=> (j \in Reach({i}, MstPairs))

\* C3 witness: find has compressed a path (a node two links below its root
\* now points at the root) and the scan goes on.
C3_Witness ==
    /\ pc \in {"scan", "accept"}
    /\ Len(mstEdges) >= 3
    /\ \E i \in Nodes : uf.rank[i] = 2 /\ \A j \in Nodes : Root(j) = i => uf.parent[j] = i

\* C4: for n >= 2 the edge list holds exactly C(n,2) edges, one for each
\* pair a < b, in non-decreasing order of distance when the scan starts, and
\* it is the list returned as debug.pairs.
C4_CompleteSortedGraph ==
    (GraphBuilt /\ N >= 2) =>
        /\ 2 * Len(edges) = N * (N - 1)
        /\ \A e \in DOMAIN edges : edges[e].a < edges[e].b /\ edges[e].b < N
        /\ \A a, b \in Nodes : a < b =>
              Cardinality({e \in DOMAIN edges : edges[e].a = a /\ edges[e].b = b}) = 1
        /\ \A e \in 1..(Len(edges) - 1) : edges[e].distance <= edges[e + 1].distance
        /\ pc = "done" => result[1].debug.pairs = edges

\* C4 witness: the scan is about to start on a graph of at least four
\* features in which the sort moved an edge of a later pair to the front.
C4_Witness ==
    /\ pc = "scan"
    /\ k = 1
    /\ N >= 4
    /\ edges[1].a > 0
    /\ edges[1].distance < edges[Len(edges)].distance

\* C5: for n = 1 the call returns the value of its one feature with the three
\* debug collections empty; no graph, union-find, edge, corridor or union is
\* made on the way, and the caller's feature is as it was.
C5_SingleFeature ==
    (N = 1) =>
        /\ pc \in {"start", "done"}
        /\ edges = <<>> /\ uf = NoUf /\ mstEdges = <<>>
        /\ corridorPolygons = <<>> /\ allPieces = <<>> /\ accumulated = <<>>
        /\ error = ""
        /\ pc = "done" =>
              /\ result[1].output = features[1]
              /\ result[1].debug.pairs = <<>>
              /\ result[1].debug.mstEdges = <<>>
              /\ result[1].debug.corridorPolygons = <<>>

\* C5 witness: a call with one feature has returned.
C5_Witness == N = 1 /\ pc = "done" /\ result # <<>>

\* C9: "Union failed" is raised exactly when the piece list is empty, which
\* is the call with no feature; for n >= 2 the pieces are the n features then
\* the n - 1 corridors, the accumulator is the left fold of turf.union over
\* the pieces taken so far, the output is the fold of all, and nothing fails.
C9_UnionFold ==
    /\ error = "Union failed" => (N = 0 /\ allPieces = <<>> /\ pc = "error")
    /\ (N = 0 /\ pc \in {"merge", "error", "done"}) => allPieces = <<>>
    /\ N = 0 => pc # "done"
    /\ (N >= 2 /\ pc \in {"merge", "done"}) =>
          /\ allPieces = polys \o corridorPolygons
          /\ Len(polys) = N /\ Len(corridorPolygons) = N - 1
          /\ pc = "merge" => accumulated = LeftFold(allPieces, k - 1)
          /\ pc = "done" => result[1].output = LeftFold(allPieces, 2 * N - 1)[1]

\* C9 witness: the call with no feature has raised "Union failed".
C9_Witness == N = 0 /\ pc = "error" /\ error = "Union failed"

\* C10: for n >= 2 the half-width is D * 0.02 * factor (in hundredths:
\* D * 2 * factor), D the diagonal or 1 km when the diagonal is zero or NaN, the
\* factor 1 when not supplied; every corridor is buffered with it; it doubles
\* with the factor and is not zero for a positive factor.
C10_CorridorWidth ==
    (N >= 2 /\ pc # "start") =>
        LET D == IF diagKm = NaN \/ diagKm = 0 THEN Km ELSE diagKm
            F == IF options = <<>> THEN 1 ELSE options[1]
        IN /\ diagKm = bboxDiagonalKm(bbox(features), rounding)
           /\ corridorWidthKm = D * 2 * F
           /\ F > 0 => corridorWidthKm > 0
           /\ \A f \in 0..MaxFactor :
                 corridorWidth(diagKm, <<2 * f>>) = 2 * corridorWidth(diagKm, <<f>>)
           /\ \A i \in DOMAIN corridorPolygons :
                 /\ corridorPolygons[i].radius = corridorWidthKm
                 /\ corridorPolygons[i].line = mstEdges[i].seg

\* C10 witness: features that are all one point (diagonal zero), a factor
\* supplied, and the corridors buffered.
C10_Witness ==
    /\ N >= 2
    /\ pc = "done"
    /\ diagKm = 0
    /\ options = <<MaxFactor>>
    /\ corridorPolygons # <<>>
    /\ corridorPolygons[1].radius = 2 * Km * MaxFactor

-----------------------------------------------------------------------------
(* Properties of the helpers (specification SpecFn).                       *)

SampleCalled == fn = "samplePerimeterPoints" /\ ret # <<>>

SegmentCalled == fn = "shortestSegmentBetween" /\ ret # <<>>

\* The outer rings the sampler reads: the first ring of every ring-group
\* that has one
OuterRings(p) ==
    LET g == ringGroups(p)
    IN Flatten([i \in DOMAIN g |-> IF Len(g[i]) = 0 THEN <<>> ELSE <<g[i][1]>>])

\* Points inserted per edge: the target over the edges rounded up, less one
InsertedPerEdge(t, v) == IF t = 0 THEN 0 ELSE Ceil(t, v - 1) - 1

\* Points inserted per edge as C6 words it: the target over the edges rounded
\* up, and none when the ring has more edges than the target
ClaimedPerEdge(t, v) == IF v - 1 > t THEN 0 ELSE Ceil(t, v - 1)

\* p lies on the segment from a to b and is neither end
StrictlyBetween(p, a, b) ==
    /\ p # a /\ p # b
    /\ (p[1] - a[1]) * (b[2] - a[2]) = (p[2] - a[2]) * (b[1] - a[1])
    /\ Min({a[1], b[1]}) <= p[1] /\ p[1] <= Max({a[1], b[1]})
    /\ Min({a[2], b[2]}) <= p[2] /\ p[2] <= Max({a[2], b[2]})

\* Strictly between two different vertices; at the vertex when both are one
BetweenEnds(p, a, b) == IF a = b THEN p = a ELSE StrictlyBetween(p, a, b)

\* What the sampler emits for a ring with c points inserted per edge
BlockLen(ring, c) ==
    IF Len(ring) >= 2 THEN Len(ring) + (Len(ring) - 1) * c ELSE Len(ring)

\* The output is, ring after ring, the vertices of the ring and then, edge
\* after edge, Count points placed as Place says
SamplesAre(Count(_, _), Place(_, _, _)) ==
    LET rings == OuterRings(args[1])
        t == args[2]
        out == ret[1]
        c(r) == IF Len(rings[r]) >= 2 THEN Count(t, Len(rings[r])) ELSE 0
        off(r) == SeqSum([q \in 1..(r - 1) |-> BlockLen(rings[q], c(q))])
    IN /\ Len(out) = SeqSum([r \in DOMAIN rings |-> BlockLen(rings[r], c(r))])
       /\ \A r \in DOMAIN rings :
             /\ \A i \in DOMAIN rings[r] : out[off(r) + i] = rings[r][i]
             /\ \A i \in 1..(Len(rings[r]) - 1) : \A x \in 1..c(r) :
                   Place(out[off(r) + Len(rings[r]) + (i - 1) * c(r) + x],
                         rings[r][i], rings[r][i + 1])

\* C6 as amended: for a target T >= 1 the sampler inserts ceil(T / (v - 1)) - 1
\* points between consecutive vertices of an outer ring of v >= 2 vertices,
\* each strictly between them when they differ; none when v - 1 >= T; every
\* vertex is emitted.
C6_SamplesPerEdge == SampleCalled => SamplesAre(InsertedPerEdge, BetweenEnds)

\* C6 witness: a two-vertex ring with distinct ends and a target of three or
\* more: at least two points were inserted on its edge.
C6_Witness ==
    /\ SampleCalled
    /\ args[1].geometry.type = "Polygon"
    /\ Len(args[1].geometry.coordinates[1]) = 2
    /\ args[1].geometry.coordinates[1][1] # args[1].geometry.coordinates[1][2]
    /\ args[2] >= 3
    /\ Len(ret[1]) = 2 + args[2] - 1

\* C6 as worded: ceil(T / (v - 1)) points are inserted between consecutive
\* vertices, each strictly between them, and none when v - 1 > T.
C6_AsWorded == SampleCalled => SamplesAre(ClaimedPerEdge, StrictlyBetween)

\* The samples of the two arguments of shortestSegmentBetween
SamplesA == samplePerimeterPoints(args[1], TargetPerRing)
SamplesB == samplePerimeterPoints(args[2], TargetPerRing)

\* C7: with both sample sets non-empty the segment returned joins the pair of
\* least distance, as the implementation computes the distances, and of the
\* pairs at that distance the first in scan order (samplesA outside, samplesB
\* inside).
C7_FirstMinimum ==
    SegmentCalled => \A sa \in {SamplesA} : \A sb \in {SamplesB} :
       (sa # <<>> /\ sb # <<>>) =>
          \A d \in {[i \in DOMAIN sa |-> [j \in DOMAIN sb |->
                        distance(sa[i], sb[j], rounding)]]} :
             LET least == Min({d[i][j] : i \in DOMAIN sa, j \in DOMAIN sb})
                 i0 == Min({i \in DOMAIN sa : \E j \in DOMAIN sb : d[i][j] = least})
                 j0 == Min({j \in DOMAIN sb : d[i0][j] = least})
             IN /\ ret[1].type = "LineString"
                /\ ret[1].coordinates = <<sa[i0], sb[j0]>>

\* C7 witness: two pairs of different points are both at the least distance
\* and the call returned the first of them.
C7_Witness ==
    LET sa == SamplesA
        sb == SamplesB
    IN /\ SegmentCalled /\ sa # <<>> /\ sb # <<>>
       /\ \E i \in DOMAIN sa, j \in DOMAIN sb :
             /\ <<sa[i], sb[j]>> # ret[1].coordinates
             /\ distance(sa[i], sb[j], rounding) = length(ret[1], rounding)
             /\ \A i2 \in DOMAIN sa, j2 \in DOMAIN sb :
                   distance(sa[i], sb[j], rounding)
                       <= distance(sa[i2], sb[j2], rounding)

\* C8 as worded: when a sample set is empty the call returns a segment (it
\* raises no error), the one joining the two centroids; when both are
\* non-empty the segment joins two sample points.
C8_CentroidFallback ==
    LET sa == SamplesA
        sb == SamplesB
    IN SegmentCalled =>
          /\ ret[1].type = "LineString"
          /\ IF sa = <<>> \/ sb = <<>>
             THEN ret[1].coordinates = <<centroid(args[1])[1], centroid(args[2])[1]>>
             ELSE \E i \in DOMAIN sa, j \in DOMAIN sb :
                     ret[1].coordinates = <<sa[i], sb[j]>>
=============================================================================
